---- MODULE Spec2Model ----
(***************************************************************************)
(* Furniture Management API (src/main.py): the HTTP handlers over the      *)
(* "furniture" collection of a document store, as a state machine.         *)
(*                                                                         *)
(* State: the process-wide connection handle `db`, the collection          *)
(* db["furniture"], and the ObjectId the store issues next.  One action    *)
(* per route handler; a request's inputs are drawn from small sets.        *)
(* Observation variables (req, resp, calls, prev, posted, deleted) record  *)
(* the last request, its response, the store calls it issued and the       *)
(* collection it found, so that each claim is a state predicate.           *)
(*                                                                         *)
(* database.py and schemas.py are imported by main.py (lines 8-9) but are  *)
(* not part of the sources: create_document, get_documents and Furniture   *)
(* follow the specification's section 4.1 and section 3.                   *)
(***************************************************************************)
EXTENDS Integers, Sequences, FiniteSets, TLC

VARIABLES
    db,          \* the module-level handle imported from database: NoDb or Live
    furniture,   \* db["furniture"]: the documents, in store-native (insertion) order
    nextOid,     \* the ObjectId the store assigns to the next inserted document
    req,         \* the last request
    resp,        \* its HTTP response: [status, body]
    calls,       \* the number of store calls the last request issued
    prev,        \* the collection as the last request found it
    posted,      \* [id, body]: the id a POST returned for body, while no PUT/DELETE named it
    deleted,     \* the ObjectIds a DELETE has removed
    pc,          \* concurrent requests: position of each request process
    creq,        \* concurrent requests: the request of each process
    cres,        \* concurrent requests: the store call's result, then the response
    gone         \* concurrent requests: the target was deleted before the process's call

vars == <<db, furniture, nextOid, req, resp, calls, prev, posted, deleted,
          pc, creq, cres, gone>>

seqVars  == <<req, resp, calls, prev, posted, deleted>>
concVars == <<pc, creq, cres, gone>>

(***************************************************************************)
(* Bounds of the model.                                                    *)
(***************************************************************************)
MaxDocs == 2          \* documents ever inserted (ObjectIds issued)
MaxTime == 2          \* distinct values utcnow() takes
MaxCollections == 11  \* collections the database may hold (more than the 10 listed)
NumProcs == 3         \* concurrent requests on one document

(***************************************************************************)
(* Program constants.                                                      *)
(***************************************************************************)
CollectionsLimit == 10   \* collections[:10]
ErrTextLimit == 50       \* str(e)[:50]
ObjectIdLen == 24        \* bson.ObjectId: 24 hexadecimal characters

(***************************************************************************)
(* Values.  Python's None is <<>> and a present optional value x is <<x>>, *)
(* so that None never equals a value.  Strings that are searched or parsed *)
(* are sequences of characters.                                            *)
(***************************************************************************)
None == <<>>
Some(x) == <<x>>

NoDb == "NoDb"
Live == "Live"

Min(a, b) == IF a <= b THEN a ELSE b

Get(d, k, default) == IF k \in DOMAIN d THEN d[k] ELSE default

Merge(d, u) == [k \in DOMAIN d \cup DOMAIN u |-> IF k \in DOMAIN u THEN u[k] ELSE d[k]]

LowerMap == [c \in {"A", "B", "C", "D", "E", "F", "S", "T"} |->
                CASE c = "A" -> "a" [] c = "B" -> "b" [] c = "C" -> "c"
                  [] c = "D" -> "d" [] c = "E" -> "e" [] c = "F" -> "f"
                  [] c = "S" -> "s" [] c = "T" -> "t"]

Lower(c) == IF c \in DOMAIN LowerMap THEN LowerMap[c] ELSE c

(***************************************************************************)
(* bson.ObjectId.  An ObjectId is modelled by its numeric value; str()     *)
(* renders 24 lower-case hexadecimal digits and ObjectId(s) parses them,   *)
(* raising InvalidId for anything that is not 24 hexadecimal characters.   *)
(***************************************************************************)
HexDigits == <<"0", "1", "2", "3", "4", "5", "6", "7",
               "8", "9", "a", "b", "c", "d", "e", "f">>

IsHexChar(c) == \E i \in 1..Len(HexDigits) : HexDigits[i] = Lower(c)

HexVal(c) == (CHOOSE i \in 1..Len(HexDigits) : HexDigits[i] = Lower(c)) - 1

RECURSIVE HexOf(_, _)
HexOf(n, width) ==
    IF width = 0 THEN <<>>
    ELSE Append(HexOf(n \div 16, width - 1), HexDigits[(n % 16) + 1])

ObjectIdStr(oid) == HexOf(oid, ObjectIdLen)

ObjectIdValid(s) ==
    /\ Len(s) = ObjectIdLen
    /\ \A i \in 1..Len(s) : IsHexChar(s[i])

RECURSIVE HexParse(_)
HexParse(s) ==
    IF s = <<>> THEN 0
    ELSE 16 * HexParse(SubSeq(s, 1, Len(s) - 1)) + HexVal(s[Len(s)])

ObjectIdParse(s) == HexParse(s)

\* the ObjectId a path id names, or 0 when it names none
Target(item_id) == IF ObjectIdValid(item_id) THEN ObjectIdParse(item_id) ELSE 0

(***************************************************************************)
(* FurnitureIn (pydantic): required name, category, price; stock defaults  *)
(* to 0 and every other field to None.  model_dump() yields all 9 fields.  *)
(***************************************************************************)
Fields == {"name", "category", "material", "price", "stock",
           "width_cm", "depth_cm", "height_cm", "image_url"}

FieldDefault(k) == IF k = "stock" THEN 0 ELSE None

FurnitureIn(body) == [k \in Fields |-> IF k \in DOMAIN body THEN body[k] ELSE FieldDefault(k)]

\* schemas.Furniture(**item.model_dump()).model_dump(): the record schema of
\* section 3 has the same fields and enforces no bound on them.
Furniture(item) == [k \in Fields |-> item[k]]

\* Mutant: depth_cm is read from the document's width_cm.
FurnitureOut_DepthFromWidth(d) ==
    [id        |-> ObjectIdStr(d._id),
     name      |-> Get(d, "name", None),
     category  |-> Get(d, "category", None),
     material  |-> Get(d, "material", None),
     price     |-> Get(d, "price", None),
     stock     |-> Get(d, "stock", 0),
     width_cm  |-> Get(d, "width_cm", None),
     depth_cm  |-> Get(d, "width_cm", None),
     height_cm |-> Get(d, "height_cm", None),
     image_url |-> Get(d, "image_url", None)]

\* FurnitureOut(id=str(d.get("_id")), name=d.get("name"), ..., stock=d.get("stock", 0), ...)
FurnitureOut(d) ==
    [id        |-> ObjectIdStr(d._id),
     name      |-> Get(d, "name", None),
     category  |-> Get(d, "category", None),
     material  |-> Get(d, "material", None),
     price     |-> Get(d, "price", None),
     stock     |-> Get(d, "stock", 0),
     width_cm  |-> Get(d, "width_cm", None),
     depth_cm  |-> Get(d, "depth_cm", None),
     height_cm |-> Get(d, "height_cm", None),
     image_url |-> Get(d, "image_url", None)]

(***************************************************************************)
(* The document store (MongoDB through pymongo).                           *)
(***************************************************************************)
\* {"$regex": p, "$options": "i"}: an unanchored regular-expression search.
\* Of the metacharacters, "." (any character) is modelled.
CharMatch(p, c, options) ==
    \/ p = "."
    \/ IF options = "i" THEN Lower(p) = Lower(c) ELSE p = c

RegexSearch(pattern, options, text) ==
    \E i \in 0..(Len(text) - Len(pattern)) :
        \A j \in 1..Len(pattern) : CharMatch(pattern[j], text[i + j], options)

\* A filter document: every key it holds must match.
Matches(d, filter) ==
    \A k \in DOMAIN filter :
        IF k = "name"
        THEN RegexSearch(filter[k].regex, filter[k].options, d.name)
        ELSE k \in DOMAIN d /\ d[k] = filter[k]

\* collection.find(filter).limit(limit); limit 0 is no limit.
Find(coll, filter, limit) ==
    LET hits == SelectSeq(coll, LAMBDA d : Matches(d, filter))
    IN  IF limit > 0 THEN SubSeq(hits, 1, Min(limit, Len(hits))) ELSE hits

Ids(coll) == {coll[i]._id : i \in 1..Len(coll)}

FirstIndex(coll, oid) == CHOOSE i \in 1..Len(coll) :
    /\ coll[i]._id = oid
    /\ \A j \in 1..(i - 1) : coll[j]._id # oid

\* collection.insert_one(doc): the store assigns the next ObjectId.
InsertOne(coll, oid, doc) == Append(coll, Merge(doc, [_id |-> oid]))

\* Mutant: find_one_and_update(..., upsert=True) inserts when nothing matches.
FindOneAndUpdate_Upsert(coll, oid, data) ==
    IF oid \in Ids(coll)
    THEN LET i == FirstIndex(coll, oid)
             d == Merge(coll[i], data)
         IN  [coll |-> [coll EXCEPT ![i] = d], result |-> Some(d)]
    ELSE LET d == Merge(data, [_id |-> oid])
         IN  [coll |-> Append(coll, d), result |-> Some(d)]

\* collection.find_one_and_update({"_id": oid}, {"$set": data}, return_document=True):
\* no upsert.  Returns the collection and the updated document, or None.
FindOneAndUpdate(coll, oid, data) ==
    IF oid \in Ids(coll)
    THEN LET i == FirstIndex(coll, oid)
             d == Merge(coll[i], data)
         IN  [coll |-> [coll EXCEPT ![i] = d], result |-> Some(d)]
    ELSE [coll |-> coll, result |-> None]

\* collection.delete_one({"_id": oid}): removes at most one document.
DeleteOne(coll, oid) ==
    IF oid \in Ids(coll)
    THEN LET i == FirstIndex(coll, oid)
         IN  [coll |-> SubSeq(coll, 1, i - 1) \o SubSeq(coll, i + 1, Len(coll)),
              deleted_count |-> 1]
    ELSE [coll |-> coll, deleted_count |-> 0]


(***************************************************************************)
(* Document Store Adapter (database.py): fails when no connection is       *)
(* established, otherwise one store call.  A raised exception is an        *)
(* outcome with raised = TRUE.                                             *)
(***************************************************************************)
DbNotAvailable == "Database not available"
InvalidId == "InvalidId"
ItemNotFound == "Item not found"

\* create_document(collection_name, data) -> str(inserted_id)
create_document(dbh, coll, oid, data) ==
    IF dbh = NoDb
    THEN [raised |-> TRUE, error |-> DbNotAvailable, coll |-> coll, calls |-> 0]
    ELSE [raised |-> FALSE, id |-> ObjectIdStr(oid),
          coll |-> InsertOne(coll, oid, data), calls |-> 1]

\* get_documents(collection_name, filter, limit) -> list of documents
get_documents(dbh, coll, filter, limit) ==
    IF dbh = NoDb
    THEN [raised |-> TRUE, error |-> DbNotAvailable, docs |-> <<>>, calls |-> 0]
    ELSE [raised |-> FALSE, docs |-> Find(coll, filter, limit), calls |-> 1]

(***************************************************************************)
(* The route handlers.  Each yields the HTTP response, the number of store *)
(* calls issued and the collection afterwards.                             *)
(***************************************************************************)
Http(status, body, coll, n) == [status |-> status, body |-> body, coll |-> coll, calls |-> n]

\* raise HTTPException(status_code, detail) -> {"detail": detail}
HttpError(status, detail, coll, n) == Http(status, [kind |-> "error", detail |-> detail], coll, n)

\* Python truthiness of an Optional[str]: None and "" are false.
Truthy(v) == v # None /\ v[1] # <<>>

\* GET /
read_root(coll) == Http(200, [kind |-> "message", message |-> "Furniture Management API"], coll, 0)

\* GET /api/hello
hello(coll) == Http(200, [kind |-> "message", message |-> "Hello from the backend API!"], coll, 0)

\* Mutant: every collection name is listed (no [:10]).
test_database_Untruncated(dbh, coll, listing, url, name) ==
    Http(200,
         [kind              |-> "diagnostic",
          backend           |-> "Running",
          database          |-> [state |-> IF dbh = NoDb THEN "Available but not initialized"
                                           ELSE IF listing.ok THEN "Connected & Working"
                                           ELSE "Connected but Error",
                                 error |-> IF dbh # NoDb /\ ~listing.ok
                                           THEN SubSeq(listing.err, 1,
                                                       Min(ErrTextLimit, Len(listing.err)))
                                           ELSE <<>>],
          database_url      |-> IF url THEN "Set" ELSE "Not Set",
          database_name     |-> IF name THEN "Set" ELSE "Not Set",
          connection_status |-> IF dbh # NoDb THEN "Connected" ELSE "Not Connected",
          collections       |-> IF dbh # NoDb /\ listing.ok THEN listing.names ELSE <<>>],
         coll,
         IF dbh # NoDb THEN 1 ELSE 0)

\* GET /test.  listing is what db.list_collection_names() does: it returns
\* names or raises err.  url and name tell whether DATABASE_URL and
\* DATABASE_NAME are set.
test_database(dbh, coll, listing, url, name) ==
    LET probe ==
            IF dbh # NoDb
            THEN IF listing.ok
                 THEN [database    |-> [state |-> "Connected & Working", error |-> <<>>],
                       connection_status |-> "Connected",
                       collections |-> SubSeq(listing.names, 1,
                                              Min(CollectionsLimit, Len(listing.names)))]
                 ELSE [database    |-> [state |-> "Connected but Error",
                                        error |-> SubSeq(listing.err, 1,
                                                         Min(ErrTextLimit, Len(listing.err)))],
                       connection_status |-> "Connected",
                       collections |-> <<>>]
            ELSE [database    |-> [state |-> "Available but not initialized", error |-> <<>>],
                  connection_status |-> "Not Connected",
                  collections |-> <<>>]
    IN  Http(200,
             [kind              |-> "diagnostic",
              backend           |-> "Running",
              database          |-> probe.database,
              database_url      |-> IF url THEN "Set" ELSE "Not Set",
              database_name     |-> IF name THEN "Set" ELSE "Not Set",
              connection_status |-> probe.connection_status,
              collections       |-> probe.collections],
             coll,
             IF dbh # NoDb THEN 1 ELSE 0)

\* POST /api/furniture
create_furniture(dbh, coll, oid, body) ==
    LET item == FurnitureIn(body)
        r    == create_document(dbh, coll, oid, Furniture(item))
    IN  IF r.raised
        THEN HttpError(500, r.error, coll, r.calls)
        ELSE Http(200, [kind |-> "id", id |-> r.id], r.coll, r.calls)

\* filter_q of list_furniture
EmptyFilter == [k \in {} |-> None]

BuildFilter(category, q) ==
    Merge(IF Truthy(category) THEN [category |-> category[1]] ELSE EmptyFilter,
          IF Truthy(q) THEN [name |-> [regex |-> q[1], options |-> "i"]] ELSE EmptyFilter)

\* results = [FurnitureOut(...) for d in docs]
FurnitureOutAll(docs) == [i \in 1..Len(docs) |-> FurnitureOut(docs[i])]

\* GET /api/furniture?category=&q=
list_furniture(dbh, coll, category, q) ==
    LET r == get_documents(dbh, coll, BuildFilter(category, q), 0)
    IN  IF r.raised
        THEN HttpError(500, r.error, coll, r.calls)
        ELSE Http(200, [kind |-> "list", items |-> FurnitureOutAll(r.docs)], coll, r.calls)

\* Mutant: an id that does not parse is looked up all the same and reported missing.
get_furniture_LooksUpAnyId(dbh, coll, item_id) ==
    LET r == get_documents(dbh, coll, [_id |-> Target(item_id)], 1)
    IN  IF r.raised
        THEN HttpError(500, r.error, coll, r.calls)
        ELSE IF r.docs = <<>>
             THEN HttpError(404, ItemNotFound, coll, r.calls)
             ELSE Http(200, Merge(FurnitureOut(r.docs[1]), [kind |-> "record"]), coll, r.calls)

\* GET /api/furniture/{item_id}: ObjectId(item_id) is evaluated before
\* get_documents is called.
get_furniture(dbh, coll, item_id) ==
    IF ~ObjectIdValid(item_id)
    THEN HttpError(500, InvalidId, coll, 0)
    ELSE LET r == get_documents(dbh, coll, [_id |-> ObjectIdParse(item_id)], 1)
         IN  IF r.raised
             THEN HttpError(500, r.error, coll, r.calls)
             ELSE IF r.docs = <<>>
                  THEN HttpError(404, ItemNotFound, coll, r.calls)
                  ELSE Http(200, Merge(FurnitureOut(r.docs[1]), [kind |-> "record"]),
                            coll, r.calls)

\* Mutant: item.model_dump(exclude_unset=True) keeps only the fields the body holds.
UpdateData_OnlySupplied(body, now) == Merge(body, [updated_at |-> Some(now)])

\* update_data = item.model_dump(); update_data["updated_at"] = utcnow()
UpdateData(body, now) == Merge(FurnitureIn(body), [updated_at |-> Some(now)])

\* Mutant: the result of the update is not inspected.
update_response_Unchecked(result, coll) ==
    Http(200, [kind |-> "status", status |-> "ok"], coll, 1)

\* if not result: raise HTTPException(404) / return {"status": "ok"}
update_response(result, coll) ==
    IF result = None
    THEN HttpError(404, ItemNotFound, coll, 1)
    ELSE Http(200, [kind |-> "status", status |-> "ok"], coll, 1)

\* Mutant: deleted_count is not inspected.
delete_response_Unchecked(deleted_count, coll) ==
    Http(200, [kind |-> "status", status |-> "deleted"], coll, 1)

\* if result.deleted_count == 0: raise HTTPException(404) / return {"status": "deleted"}
delete_response(deleted_count, coll) ==
    IF deleted_count = 0
    THEN HttpError(404, ItemNotFound, coll, 1)
    ELSE Http(200, [kind |-> "status", status |-> "deleted"], coll, 1)

\* Mutant: ObjectId(item_id) is evaluated before db is tested.
update_furniture_ParsesFirst(dbh, coll, item_id, body, now) ==
    IF ~ObjectIdValid(item_id)
    THEN HttpError(500, InvalidId, coll, 0)
    ELSE IF dbh = NoDb
         THEN HttpError(500, DbNotAvailable, coll, 0)
         ELSE LET r == FindOneAndUpdate(coll, ObjectIdParse(item_id), UpdateData(body, now))
              IN  update_response(r.result, r.coll)

\* PUT /api/furniture/{item_id}
update_furniture(dbh, coll, item_id, body, now) ==
    IF dbh = NoDb
    THEN HttpError(500, DbNotAvailable, coll, 0)
    ELSE IF ~ObjectIdValid(item_id)
         THEN HttpError(500, InvalidId, coll, 0)
         ELSE LET r == FindOneAndUpdate(coll, ObjectIdParse(item_id), UpdateData(body, now))
              IN  update_response(r.result, r.coll)

\* Mutant: the document is looked up with find_one before delete_one is issued.
delete_furniture_FindsFirst(dbh, coll, item_id) ==
    IF dbh = NoDb
    THEN HttpError(500, DbNotAvailable, coll, 0)
    ELSE IF ~ObjectIdValid(item_id)
         THEN HttpError(500, InvalidId, coll, 0)
         ELSE LET r == DeleteOne(coll, ObjectIdParse(item_id))
                  o == delete_response(r.deleted_count, r.coll)
              IN  Http(o.status, o.body, o.coll, 2)

\* DELETE /api/furniture/{item_id}
delete_furniture(dbh, coll, item_id) ==
    IF dbh = NoDb
    THEN HttpError(500, DbNotAvailable, coll, 0)
    ELSE IF ~ObjectIdValid(item_id)
         THEN HttpError(500, InvalidId, coll, 0)
         ELSE LET r == DeleteOne(coll, ObjectIdParse(item_id))
              IN  delete_response(r.deleted_count, r.coll)

(***************************************************************************)
(* Inputs of the requests.                                                 *)
(***************************************************************************)
Table    == <<"T", "a", "b", "l", "e">>
Tub      == <<"T", "u", "b">>
Stab     == <<"S", "t", "a", "b">>
Chairs   == <<"C", "h", "a", "i", "r", "s">>
ChairsLc == <<"c", "h", "a", "i", "r", "s">>

\* JSON bodies: a key that is omitted is not in the record's domain.
PMin  == [name |-> Table, category |-> Chairs, price |-> 10]
PFull == [name |-> Tub, category |-> ChairsLc, material |-> Some("oak"), price |-> 20,
          stock |-> 5, width_cm |-> Some(50), depth_cm |-> Some(40),
          height_cm |-> Some(30), image_url |-> Some("u.png")]
PPart == [name |-> Stab, category |-> Chairs, price |-> 10, width_cm |-> Some(50),
          image_url |-> None]

Payloads == {PMin, PFull, PPart}

CategoryParams == {None, Some(<<>>), Some(Chairs), Some(ChairsLc)}

QParams == {None, Some(<<>>), Some(<<"t", "a", "b">>), Some(<<"T", "A", "B">>),
            Some(<<"t", ".", "b">>)}

Malformed == {<<"a", "b", "c">>,
              SubSeq(ObjectIdStr(1), 1, ObjectIdLen - 1),
              Append(SubSeq(ObjectIdStr(1), 1, ObjectIdLen - 1), "g")}

WellFormed == {ObjectIdStr(n) : n \in 1..(MaxDocs + 1)}

ItemIds == WellFormed \cup Malformed

Times == 1..MaxTime

Text(n) == [i \in 1..n |-> "x"]

Listings == {[ok |-> TRUE, names |-> [i \in 1..n |-> i]] :
                 n \in {0, MaxCollections - 1, MaxCollections}}
            \cup {[ok |-> FALSE, err |-> Text(n)] : n \in {3, ErrTextLimit + 10}}

Procs == 1..NumProcs

\* a PUT or DELETE names item_id: its POSTed payload is no longer what a GET must return
Forget(entries, item_id) == {e \in entries : Target(e.id) # Target(item_id)}

(***************************************************************************)
(* The requests of a client that sends one request and reads its response  *)
(* before it sends the next.                                               *)
(***************************************************************************)
Idle == [op |-> "NONE"]

NoResponse == [status |-> 0, body |-> [kind |-> "none"]]

Serve(r, out) ==
    /\ req = Idle
    /\ req' = r
    /\ resp' = [status |-> out.status, body |-> out.body]
    /\ calls' = out.calls
    /\ prev' = furniture
    /\ furniture' = out.coll
    /\ UNCHANGED <<db, concVars>>

ReadRoot ==
    /\ Serve([op |-> "ROOT"], read_root(furniture))
    /\ UNCHANGED <<nextOid, posted, deleted>>

Hello ==
    /\ Serve([op |-> "HELLO"], hello(furniture))
    /\ UNCHANGED <<nextOid, posted, deleted>>

TestDatabase ==
    \E listing \in Listings, url \in BOOLEAN, name \in BOOLEAN :
        /\ Serve([op |-> "TEST", listing |-> listing],
                 test_database(db, furniture, listing, url, name))
        /\ UNCHANGED <<nextOid, posted, deleted>>

CreateFurniture ==
    \E body \in Payloads :
        LET out == create_furniture(db, furniture, nextOid, body)
        IN  /\ nextOid <= MaxDocs
            /\ Serve([op |-> "POST", body |-> body], out)
            /\ nextOid' = IF out.status = 200 THEN nextOid + 1 ELSE nextOid
            /\ posted' = IF out.status = 200
                         THEN posted \cup {[id |-> out.body.id, body |-> body]}
                         ELSE posted
            /\ UNCHANGED deleted

ListFurniture ==
    \E category \in CategoryParams, q \in QParams :
        /\ Serve([op |-> "LIST", category |-> category, q |-> q],
                 list_furniture(db, furniture, category, q))
        /\ UNCHANGED <<nextOid, posted, deleted>>

GetFurniture ==
    \E item_id \in ItemIds :
        /\ Serve([op |-> "GET", item_id |-> item_id], get_furniture(db, furniture, item_id))
        /\ UNCHANGED <<nextOid, posted, deleted>>

UpdateFurniture ==
    \E item_id \in ItemIds, body \in Payloads, now \in Times :
        /\ Serve([op |-> "PUT", item_id |-> item_id, body |-> body, now |-> now],
                 update_furniture(db, furniture, item_id, body, now))
        /\ posted' = Forget(posted, item_id)
        /\ UNCHANGED <<nextOid, deleted>>

DeleteFurniture ==
    \E item_id \in ItemIds :
        LET out == delete_furniture(db, furniture, item_id)
        IN  /\ Serve([op |-> "DELETE", item_id |-> item_id], out)
            /\ posted' = Forget(posted, item_id)
            /\ deleted' = IF out.status = 200 THEN deleted \cup {Target(item_id)} ELSE deleted
            /\ UNCHANGED nextOid

\* The client has read the response.
Deliver ==
    /\ req # Idle
    /\ req' = Idle
    /\ resp' = NoResponse
    /\ calls' = 0
    /\ prev' = <<>>
    /\ UNCHANGED <<db, furniture, nextOid, posted, deleted, concVars>>

Init ==
    /\ db \in {NoDb, Live}
    /\ furniture = <<>>
    /\ nextOid = 1
    /\ req = Idle
    /\ resp = NoResponse
    /\ calls = 0
    /\ prev = <<>>
    /\ posted = {}
    /\ deleted = {}
    /\ pc = [p \in Procs |-> "idle"]
    /\ creq = [p \in Procs |-> [op |-> "NONE"]]
    /\ cres = [p \in Procs |-> [kind |-> "none"]]
    /\ gone = [p \in Procs |-> FALSE]

Next ==
    \/ ReadRoot
    \/ Hello
    \/ TestDatabase
    \/ CreateFurniture
    \/ ListFurniture
    \/ GetFurniture
    \/ UpdateFurniture
    \/ DeleteFurniture
    \/ Deliver

Spec == Init /\ [][Next]_vars


(***************************************************************************)
(* Concurrent PUT and DELETE requests on one document.  A handler runs up  *)
(* to its store call (precheck of db, ObjectId(item_id)), the store        *)
(* executes the call atomically, and the handler maps the result to the    *)
(* response.                                                               *)
(***************************************************************************)
ConcPayloads == {PMin, PPart}

\* the collection after two POSTs
ConcColl == InsertOne(InsertOne(<<>>, 1, Furniture(FurnitureIn(PFull))),
                      2, Furniture(FurnitureIn(PMin)))

\* the document every concurrent request names
TargetOid == ConcColl[1]._id

\* the handler reaches its store call
ReachesCall(dbh, item_id) == dbh # NoDb /\ ObjectIdValid(item_id)

\* the response of a handler that raised before its store call
EarlyResponse(dbh) ==
    [kind |-> "response", hit |-> FALSE, status |-> 500,
     body |-> [kind |-> "error", detail |-> IF dbh = NoDb THEN DbNotAvailable ELSE InvalidId]]

\* a DELETE's store call has removed the target
DeleteTookEffect ==
    \E q \in Procs : creq[q].op = "DELETE" /\ pc[q] \in {"ret", "done"} /\ cres[q].hit

CBegin(p, r) ==
    /\ pc[p] = "idle"
    /\ creq' = [creq EXCEPT ![p] = r]
    /\ IF ReachesCall(db, r.item_id)
       THEN /\ pc' = [pc EXCEPT ![p] = "call"]
            /\ cres' = cres
       ELSE /\ pc' = [pc EXCEPT ![p] = "done"]
            /\ cres' = [cres EXCEPT ![p] = EarlyResponse(db)]
    /\ UNCHANGED <<db, furniture, nextOid, gone, seqVars>>

CUpdateBegin(p) ==
    \E body \in ConcPayloads :
        CBegin(p, [op |-> "PUT", item_id |-> ObjectIdStr(TargetOid), body |-> body, now |-> 1])

CDeleteBegin(p) ==
    CBegin(p, [op |-> "DELETE", item_id |-> ObjectIdStr(TargetOid)])

CUpdateCall(p) ==
    /\ pc[p] = "call"
    /\ creq[p].op = "PUT"
    /\ LET r == FindOneAndUpdate(furniture, ObjectIdParse(creq[p].item_id),
                                 UpdateData(creq[p].body, creq[p].now))
       IN  /\ furniture' = r.coll
           /\ cres' = [cres EXCEPT ![p] = [kind |-> "result", hit |-> r.result # None]]
    /\ gone' = [gone EXCEPT ![p] = DeleteTookEffect]
    /\ pc' = [pc EXCEPT ![p] = "ret"]
    /\ UNCHANGED <<db, nextOid, creq, seqVars>>

CDeleteCall(p) ==
    /\ pc[p] = "call"
    /\ creq[p].op = "DELETE"
    /\ LET r == DeleteOne(furniture, ObjectIdParse(creq[p].item_id))
       IN  /\ furniture' = r.coll
           /\ cres' = [cres EXCEPT ![p] = [kind |-> "result", hit |-> r.deleted_count = 1]]
    /\ gone' = [gone EXCEPT ![p] = DeleteTookEffect]
    /\ pc' = [pc EXCEPT ![p] = "ret"]
    /\ UNCHANGED <<db, nextOid, creq, seqVars>>

CReturn(p, out) ==
    /\ cres' = [cres EXCEPT ![p] = [kind |-> "response", hit |-> cres[p].hit,
                                    status |-> out.status, body |-> out.body]]
    /\ pc' = [pc EXCEPT ![p] = "done"]
    /\ UNCHANGED <<db, furniture, nextOid, creq, gone, seqVars>>

CUpdateReturn(p) ==
    /\ pc[p] = "ret"
    /\ creq[p].op = "PUT"
    /\ CReturn(p, update_response(IF cres[p].hit THEN Some(TRUE) ELSE None, furniture))

CDeleteReturn(p) ==
    /\ pc[p] = "ret"
    /\ creq[p].op = "DELETE"
    /\ CReturn(p, delete_response(IF cres[p].hit THEN 1 ELSE 0, furniture))

ConcInit ==
    /\ db = Live
    /\ furniture = ConcColl
    /\ nextOid = Len(ConcColl) + 1
    /\ req = Idle
    /\ resp = NoResponse
    /\ calls = 0
    /\ prev = <<>>
    /\ posted = {}
    /\ deleted = {}
    /\ pc = [p \in Procs |-> "idle"]
    /\ creq = [p \in Procs |-> [op |-> "NONE"]]
    /\ cres = [p \in Procs |-> [kind |-> "none"]]
    /\ gone = [p \in Procs |-> FALSE]

ConcNext ==
    \E p \in Procs :
        \/ CUpdateBegin(p)
        \/ CDeleteBegin(p)
        \/ CUpdateCall(p)
        \/ CDeleteCall(p)
        \/ CUpdateReturn(p)
        \/ CDeleteReturn(p)

SpecConc == ConcInit /\ [][ConcNext]_vars


(***************************************************************************)
(* Properties.                                                             *)
(***************************************************************************)
FurnitureOps == {"POST", "LIST", "GET", "PUT", "DELETE"}

Without(coll, oid) == SelectSeq(coll, LAMBDA d : d._id # oid)

\* what a record read back must hold for field k of the POSTed or PUT body
BodyValue(body, k) ==
    IF k \in DOMAIN body THEN body[k] ELSE IF k = "stock" THEN 0 ELSE None

\* C1: a GET of the id a POST returned, with no PUT or DELETE on that id in
\* between, answers 200 with a record whose id is the returned id and whose
\* fields are those of the POSTed payload, an omitted stock being 0 and any
\* other omitted field null.
C1_RoundTrip ==
    \A e \in posted :
        (req.op = "GET" /\ req.item_id = e.id) =>
            /\ resp.status = 200
            /\ resp.body.kind = "record"
            /\ resp.body.id = e.id
            /\ \A k \in Fields : resp.body[k] = BodyValue(e.body, k)

C1_Witness ==
    /\ req.op = "GET"
    /\ \E e \in posted : e.id = req.item_id /\ e.body = PPart
    /\ resp.status = 200
    /\ resp.body.stock = 0
    /\ resp.body.material = None
    /\ resp.body.width_cm = Some(50)

\* C2: with the store available, the DELETE of an existing document answers
\* 200 {"status": "deleted"} and removes exactly that document; every later
\* DELETE of the same id answers 404 and leaves the collection as it was; a
\* deleted id is never in the collection again.
C2_DeleteTwice ==
    /\ (req.op = "DELETE" /\ db = Live /\ ObjectIdValid(req.item_id)) =>
           LET oid == ObjectIdParse(req.item_id)
           IN  /\ oid \in Ids(prev) =>
                      /\ resp = [status |-> 200,
                                 body |-> [kind |-> "status", status |-> "deleted"]]
                      /\ furniture = Without(prev, oid)
                      /\ oid \notin Ids(furniture)
               /\ (oid \in deleted /\ oid \notin Ids(prev)) =>
                      /\ resp.status = 404
                      /\ resp.body.kind = "error"
                      /\ furniture = prev
    /\ deleted \cap Ids(furniture) = {}

C2_Witness ==
    /\ req.op = "DELETE"
    /\ Target(req.item_id) \in deleted
    /\ Target(req.item_id) \notin Ids(prev)
    /\ resp.status = 404
    /\ furniture # <<>>

\* C3: a PUT whose well-formed id matches no document of the collection
\* db["furniture"] answers 404 and leaves the collection as it was: nothing
\* is inserted and nothing is modified.
C3_PutMissing ==
    (/\ req.op = "PUT"
     /\ db = Live
     /\ ObjectIdValid(req.item_id)
     /\ ObjectIdParse(req.item_id) \notin Ids(prev)) =>
        /\ resp.status = 404
        /\ resp.body.kind = "error"
        /\ furniture = prev

C3_Witness ==
    /\ req.op = "PUT"
    /\ db = Live
    /\ ObjectIdValid(req.item_id)
    /\ ObjectIdParse(req.item_id) \notin Ids(prev)
    /\ resp.status = 404
    /\ Len(prev) = 2

\* q occurs in name as a substring, letter case ignored
ContainsIgnoreCase(q, name) ==
    \E i \in 0..(Len(name) - Len(q)) :
        \A j \in 1..Len(q) : Lower(q[j]) = Lower(name[i + j])

\* a query parameter that is given a (non-empty) value
Supplied(v) == v # None /\ v[1] # <<>>

Satisfies(d, category, q) ==
    /\ Supplied(category) => d.category = category[1]
    /\ Supplied(q) => ContainsIgnoreCase(q[1], d.name)

\* C4: GET /api/furniture answers 200 with exactly the stored records whose
\* category equals the category parameter and whose name contains q as a
\* case-insensitive substring, a parameter that is not supplied imposing no
\* constraint.
C4_ListFilter ==
    (req.op = "LIST" /\ db = Live) =>
        /\ resp.status = 200
        /\ resp.body.kind = "list"
        /\ resp.body.items =
               FurnitureOutAll(SelectSeq(prev, LAMBDA d : Satisfies(d, req.category, req.q)))

\* C5: a GET with an id that is not a valid ObjectId never answers 200: it
\* answers a 4xx/5xx HTTP error with a {"detail": ...} body, issues no store
\* query and leaves the collection as it was.
C5_InvalidIdGet ==
    (req.op = "GET" /\ ~ObjectIdValid(req.item_id)) =>
        /\ resp.status # 200
        /\ resp.status \in 400..599
        /\ resp.body.kind = "error"
        /\ DOMAIN resp.body = {"kind", "detail"}
        /\ calls = 0
        /\ furniture = prev

C5_Witness ==
    /\ req.op = "GET"
    /\ ~ObjectIdValid(req.item_id)
    /\ Len(req.item_id) = ObjectIdLen
    /\ db = Live
    /\ furniture # <<>>
    /\ resp.status = 500

\* C6: GET /test answers 200 with the diagnostic object whether the handle
\* is absent, present and working, or present with a failing listing; a
\* failure is a descriptive string in the body and at most 10 collection
\* names are listed.
C6_TestNeverFails ==
    req.op = "TEST" =>
        /\ resp.status = 200
        /\ resp.body.kind = "diagnostic"
        /\ Len(resp.body.collections) <= 10
        /\ db = NoDb =>
               /\ resp.body.database.state = "Available but not initialized"
               /\ resp.body.collections = <<>>
        /\ (db = Live /\ ~req.listing.ok) =>
               /\ resp.body.database.state = "Connected but Error"
               /\ resp.body.database.error # <<>>
               /\ Len(resp.body.database.error) <= 50
               /\ resp.body.collections = <<>>
        /\ (db = Live /\ req.listing.ok) =>
               /\ resp.body.database.state = "Connected & Working"
               /\ \A i \in 1..Len(resp.body.collections) :
                      resp.body.collections[i] = req.listing.names[i]
               /\ Len(resp.body.collections) = Min(10, Len(req.listing.names))

C6_Witness ==
    /\ req.op = "TEST"
    /\ db = Live
    /\ ~req.listing.ok
    /\ Len(req.listing.err) > 50
    /\ resp.status = 200
    /\ Len(resp.body.database.error) = 50

\* C7: without a connection every furniture route answers 500 with a
\* {"detail": ...} body, never 200 or 404, and issues no store call; POST,
\* PUT and DELETE report the missing connection itself, found before any
\* store operation and before the id is parsed.
C7_NoConnection ==
    (db = NoDb /\ req.op \in FurnitureOps) =>
        /\ resp.status = 500
        /\ resp.body.kind = "error"
        /\ calls = 0
        /\ furniture = prev
        /\ req.op \in {"POST", "PUT", "DELETE"} => resp.body.detail = DbNotAvailable

C7_Witness ==
    /\ db = NoDb
    /\ req.op = "PUT"
    /\ ~ObjectIdValid(req.item_id)
    /\ resp.status = 500
    /\ resp.body.detail = DbNotAvailable

\* the request reaches its store call: the handle is present and, on a
\* by-id route, the id is a valid ObjectId
ReachesStore ==
    /\ db = Live
    /\ \/ req.op \in {"POST", "LIST", "TEST"}
       \/ req.op \in {"GET", "PUT", "DELETE"} /\ ObjectIdValid(req.item_id)

\* C8 as stated: every furniture request issues exactly one store call, never
\* zero and never more, whatever its outcome.
C8_ExactlyOneCall ==
    req.op \in FurnitureOps => calls = 1

\* C8: every request issues at most one store call: exactly one when the
\* handle is present and the id of a by-id route is a valid ObjectId (a 404
\* included), and none otherwise (the static routes, and the requests that
\* end in 500 because the connection is missing or the id is malformed).
C8_AtMostOneCall ==
    req # Idle =>
        /\ calls \in {0, 1}
        /\ calls = 1 <=> ReachesStore
        /\ resp.status = 404 => calls = 1

C8_Witness ==
    /\ req.op = "DELETE"
    /\ db = Live
    /\ furniture # <<>>
    /\ resp.status = 500
    /\ calls = 0

\* C9: a PUT on an existing document answers 200 {"status": "ok"}; the
\* document keeps its id and holds, for every field, the value of the body
\* (null where the body omits an optional field, 0 where it omits stock) and
\* the time of the update; the number of documents and every other document
\* are as before.  The ids of the collection are pairwise distinct.
C9_PutReplaces ==
    /\ (/\ req.op = "PUT"
        /\ ObjectIdValid(req.item_id)
        /\ ObjectIdParse(req.item_id) \in Ids(prev)) =>
           LET oid == ObjectIdParse(req.item_id)
               i   == FirstIndex(prev, oid)
           IN  /\ resp = [status |-> 200, body |-> [kind |-> "status", status |-> "ok"]]
               /\ Len(furniture) = Len(prev)
               /\ \A j \in 1..Len(prev) : j # i => furniture[j] = prev[j]
               /\ furniture[i]._id = oid
               /\ \A k \in Fields : furniture[i][k] = BodyValue(req.body, k)
               /\ furniture[i].updated_at = Some(req.now)
    /\ \A i, j \in 1..Len(furniture) : i # j => furniture[i]._id # furniture[j]._id

C9_Witness ==
    /\ req.op = "PUT"
    /\ req.body = PMin
    /\ resp.status = 200
    /\ Len(furniture) = 2
    /\ \E i \in 1..Len(prev) :
           /\ prev[i]._id = Target(req.item_id)
           /\ prev[i].material = Some("oak")
           /\ furniture[i].material = None

CalledDeletes == {p \in Procs : creq[p].op = "DELETE" /\ pc[p] \in {"ret", "done"}}

\* C10: of the concurrent DELETEs of one document exactly one answers
\* {"status": "deleted"} and every other answers 404; a PUT whose store call
\* comes after the delete took effect answers 404; once the delete took
\* effect the document is absent in every later state.
C10_ConcurrentDeletePut ==
    /\ CalledDeletes # {} => Cardinality({p \in CalledDeletes : cres[p].hit}) = 1
    /\ \A p \in Procs :
           (creq[p].op = "DELETE" /\ pc[p] = "done") =>
               IF cres[p].hit
               THEN /\ cres[p].status = 200
                    /\ cres[p].body = [kind |-> "status", status |-> "deleted"]
               ELSE cres[p].status = 404
    /\ \A p \in Procs :
           (creq[p].op = "PUT" /\ pc[p] = "done" /\ gone[p]) => cres[p].status = 404
    /\ DeleteTookEffect => TargetOid \notin Ids(furniture)

C10_Witness ==
    \E p, q, r \in Procs :
        /\ pc[p] = "done" /\ creq[p].op = "DELETE" /\ cres[p].status = 200
        /\ pc[q] = "done" /\ creq[q].op = "DELETE" /\ cres[q].status = 404
        /\ pc[r] = "done" /\ creq[r].op = "PUT" /\ gone[r] /\ cres[r].status = 404

====
